---- MODULE Spec2Model ----
(***************************************************************************)
(* Model of scripts/monitor.js: the capture / diff / baseline pipeline of  *)
(* the visual monitor, one run after another on a persistent file system.  *)
(***************************************************************************)
EXTENDS Integers, Sequences, FiniteSets, TLC

(***************************************************************************)
(* Bounds of the model.                                                    *)
(***************************************************************************)
\* largest number of pixels (width * height) of a raster handed to diffPngs
MaxArea == 4

(***************************************************************************)
(* Raster images.  A pixel is one of three colours: Blank is the RGBA      *)
(* value (0,0,0,0) of a zero-filled canvas, White and Dark are opaque.     *)
(* White is the opaque colour pixelmatch blends translucent pixels onto.   *)
(* data is row-major, data[y * width + x + 1] is the pixel (x, y).         *)
(***************************************************************************)
Blank == "blank"
White == "white"
Dark  == "dark"

\* colours a screenshot can hold (page.screenshot yields opaque pixels)
OpaqueColours == {White, Dark}

Raster(w, h, d) == [width |-> w, height |-> h, data |-> d]

RastersOf(w, h) == {Raster(w, h, d) : d \in [1..(w * h) -> OpaqueColours]}

Dimensions == {d \in (1..MaxArea) \X (1..MaxArea) : d[1] * d[2] <= MaxArea}

Images == UNION {RastersOf(d[1], d[2]) : d \in Dimensions}

Max(a, b) == IF a >= b THEN a ELSE b
Min(a, b) == IF a <= b THEN a ELSE b

PixelAt(img, x, y) == img.data[y * img.width + x + 1]

\* new PNG({ width, height }): a zero-filled canvas
NewPNG(w, h) == Raster(w, h, [i \in 1..(w * h) |-> Blank])

\* PNG.bitblt(img, out, 0, 0, img.width, img.height, 0, 0)
Bitblt(img, out) ==
  [out EXCEPT !.data =
     [i \in 1..(out.width * out.height) |->
        LET x == (i - 1) % out.width
            y == (i - 1) \div out.width
        IN  IF x < img.width /\ y < img.height
              THEN PixelAt(img, x, y)
              ELSE out.data[i]]]

\* padTo of diffPngs, for the canvas width x height
padTo(img, width, height) ==
  IF img.width = width /\ img.height = height
    THEN img
    ELSE Bitblt(img, NewPNG(width, height))

(***************************************************************************)
(* pixelmatch(a, b, diff, width, height, {threshold, includeAA: false}).   *)
(* Brightness is 0 (dark) or 1 (white); the tolerance t stands for the     *)
(* threshold scaled to that range, so maxDelta is t * t.                   *)
(***************************************************************************)
\* blend(c, a): a pixel with alpha < 255 is blended onto the background
blend(c) == IF c = Blank THEN White ELSE c

rgb2y(c) == IF c = Dark THEN 0 ELSE 1

\* colorDelta(img1, img2, k, m, yOnly = true): signed brightness difference
BrightnessDelta(c1, c2) ==
  IF c1 = c2 THEN 0 ELSE rgb2y(blend(c1)) - rgb2y(blend(c2))

\* colorDelta(img1, img2, k, m): magnitude of the colour difference
colorDelta(c1, c2) ==
  LET y == BrightnessDelta(c1, c2) IN y * y

Neighbours(x1, y1, width, height) ==
  {p \in (Max(x1 - 1, 0)..Min(x1 + 1, width - 1))
           \X (Max(y1 - 1, 0)..Min(y1 + 1, height - 1)) : p # <<x1, y1>>}

OnEdge(x1, y1, width, height) ==
  \/ x1 = Max(x1 - 1, 0)
  \/ x1 = Min(x1 + 1, width - 1)
  \/ y1 = Max(y1 - 1, 0)
  \/ y1 = Min(y1 + 1, height - 1)

\* hasManySiblings: more than two neighbours of the same colour
hasManySiblings(img, x1, y1, width, height) ==
  LET same == {p \in Neighbours(x1, y1, width, height) :
                 PixelAt(img, p[1], p[2]) = PixelAt(img, x1, y1)}
      zeroes == (IF OnEdge(x1, y1, width, height) THEN 1 ELSE 0) + Cardinality(same)
  IN  zeroes > 2

\* antialiased(img, x1, y1, width, height, img2)
antialiased(img, x1, y1, width, height, img2) ==
  LET nb == Neighbours(x1, y1, width, height)
      d(p) == BrightnessDelta(PixelAt(img, x1, y1), PixelAt(img, p[1], p[2]))
      zeroes == (IF OnEdge(x1, y1, width, height) THEN 1 ELSE 0)
                  + Cardinality({p \in nb : d(p) = 0})
      darker == {p \in nb : d(p) < 0 /\ \A q \in nb : d(p) <= d(q)}
      brighter == {p \in nb : d(p) > 0 /\ \A q \in nb : d(p) >= d(q)}
      many(p) == /\ hasManySiblings(img, p[1], p[2], width, height)
                 /\ hasManySiblings(img2, p[1], p[2], width, height)
  IN  /\ zeroes <= 2
      /\ darker # {}
      /\ brighter # {}
      /\ \/ \E p \in darker : many(p)
         \/ \E p \in brighter : many(p)

\* the pixel (x, y) is counted as differing
PixelDiffers(a, b, x, y, width, height, t) ==
  /\ colorDelta(PixelAt(a, x, y), PixelAt(b, x, y)) > t * t
  /\ ~ (\/ antialiased(a, x, y, width, height, b)
        \/ antialiased(b, x, y, width, height, a))

\* no fast path for identical images, and >= in place of > maxDelta
pixelmatchGe(a, b, width, height, t) ==
  Cardinality({p \in (0..(width - 1)) \X (0..(height - 1)) :
                 colorDelta(PixelAt(a, p[1], p[2]), PixelAt(b, p[1], p[2])) >= t * t})

\* pixelmatch: the number of differing pixels
pixelmatch(a, b, width, height, t) ==
  IF a.data = b.data
    THEN 0
    ELSE Cardinality({p \in (0..(width - 1)) \X (0..(height - 1)) :
                        PixelDiffers(a, b, p[1], p[2], width, height, t)})

\* diffPngs(baselineBuf, currentBuf, pixelmatchThreshold); ratio is the
\* fraction diffPixels / totalPixels
diffPngs(baselineBuf, currentBuf, pixelmatchThreshold) ==
  LET width == Max(baselineBuf.width, currentBuf.width)
      height == Max(baselineBuf.height, currentBuf.height)
      a == padTo(baselineBuf, width, height)
      b == padTo(currentBuf, width, height)
  IN  [diffPixels |-> pixelmatch(a, b, width, height, pixelmatchThreshold),
       totalPixels |-> width * height]

(***************************************************************************)
(* Configuration and inputs of a run.                                      *)
(***************************************************************************)
\* cfg.urls, in configured order
Urls == <<"u1", "u2">>
Targets == {Urls[i] : i \in 1..Len(Urls)}

\* what captureFullPage can return: a white page, a dark page, the white page
\* grown by a white region, the white page grown by a dark footer
PageWhite == Raster(1, 1, <<White>>)
PageDark == Raster(1, 1, <<Dark>>)
PageWhiteTaller == Raster(1, 2, <<White, White>>)
PageFooter == Raster(1, 2, <<White, Dark>>)
Pages == {PageWhite, PageDark, PageWhiteTaller, PageFooter}

\* cfg.diff.changeThresholdRatio as a fraction <<numerator, denominator>>
Thresholds == {<<0, 1>>, <<1, 2>>, <<1, 1>>}
\* cfg.diff.pixelmatchThreshold on the brightness scale
PixTols == {0, 1}
\* cfg.email.attachMaxPngs and cfg.email.maxAttachmentBytes
EmailCfgs == {[maxPngs |-> k, maxBytes |-> b] : k \in {1, 2}, b \in {2, 3}}
\* byte sizes fsp.stat can report for a diff image and for diffs.zip
PngSizes == {1, 2}
ZipSizes == {1, 3}

(***************************************************************************)
(* The file system.  The content of a baseline is its raster; of the run   *)
(* and diff files only the presence matters to the program (the run file   *)
(* is never read back, a diff file is listed, sized and attached).         *)
(***************************************************************************)
NoFile == [tag |-> "nofile"]
Partial == [tag |-> "partial"]
FileMark == [tag |-> "file"]
None == [tag |-> "none"]

baselinePathOf(t) == <<"baselines", t>>
currentPathOf(t) == <<"run", t>>
diffPathOf(t) == <<"diffs", t>>
TmpSlot == <<"tmp", "tmp">>
Paths == ({"baselines", "run", "diffs"} \X Targets) \cup {TmpSlot}

VARIABLES
  fs,               \* path -> content
  dirty,            \* git status --porcelain is not empty
  pc,               \* position of main()
  wstep,            \* position inside writeFileAtomic
  cfg,              \* the values read from monitor.config.json
  browser,          \* "closed" | "open"
  idx,              \* index of the url of the for loop
  currentBuf,
  baselineBuf,
  diffRes,          \* what diffPngs returned
  changes,
  seededBaselines,
  emailCfg,
  diffFilesAll,
  fileIdx,          \* index of f in diffFilesAll.slice(0, maxPngs)
  attachments,
  attachmentBytes,
  st,               \* per target: its state of the per-target machine, this run
  sent,             \* notifications dispatched by this run
  commitMsg,        \* the message handed to git commit by this run
  exitCode,
  prevChanged       \* per target: the capture of its last run if that run ended Changed

vars == <<fs, dirty, pc, wstep, cfg, browser, idx, currentBuf, baselineBuf, diffRes,
          changes, seededBaselines, emailCfg, diffFilesAll, fileIdx, attachments,
          attachmentBytes, st, sent, commitMsg, exitCode, prevChanged>>

fsVars == <<fs, dirty>>
loopVars == <<idx, currentBuf, baselineBuf, diffRes, changes, seededBaselines>>
mailVars == <<emailCfg, diffFilesAll, fileIdx, attachments, attachmentBytes>>
ghostVars == <<st, sent, commitMsg, prevChanged>>

url == Urls[idx]

\* the local state of a process that is not running
LocalsInit ==
  /\ pc = "idle"
  /\ wstep = "call"
  /\ cfg = None
  /\ browser = "closed"
  /\ idx = 1
  /\ currentBuf = None
  /\ baselineBuf = None
  /\ diffRes = None
  /\ changes = <<>>
  /\ seededBaselines = 0
  /\ emailCfg = None
  /\ diffFilesAll = <<>>
  /\ fileIdx = 1
  /\ attachments = <<>>
  /\ attachmentBytes = 0
  /\ st = [t \in Targets |-> "Pending"]
  /\ sent = 0
  /\ commitMsg = None
  /\ exitCode = 0

\* a fresh checkout: no baseline, no run or diff file
Init ==
  /\ fs = [p \in Paths |-> NoFile]
  /\ dirty = FALSE
  /\ prevChanged = [t \in Targets |-> None]
  /\ LocalsInit

(***************************************************************************)
(* writeFileAtomic(filePath, buf), called at four places of the loop: the  *)
(* pc names the caller, wstep the position inside the function.            *)
(***************************************************************************)
WriteSites == {"writeCurrent", "seed", "writeDiff", "replace"}

\* line 280 writing to the diff path in place of the baseline path
filePathAtSeedWrong(p, t) ==
  CASE p = "writeCurrent" -> currentPathOf(t)
    [] p = "seed" -> diffPathOf(t)
    [] p = "writeDiff" -> diffPathOf(t)
    [] p = "replace" -> baselinePathOf(t)

\* line 276 writing the capture to the baseline path in place of the run path
filePathAtCurrentWrong(p, t) ==
  CASE p = "writeCurrent" -> baselinePathOf(t)
    [] p = "seed" -> baselinePathOf(t)
    [] p = "writeDiff" -> diffPathOf(t)
    [] p = "replace" -> baselinePathOf(t)

\* lines 295 and 304 in the opposite order: the baseline is replaced first,
\* the diff image written last
filePathAtSwapped(p, t) ==
  CASE p = "writeCurrent" -> currentPathOf(t)
    [] p = "seed" -> baselinePathOf(t)
    [] p = "writeDiff" -> baselinePathOf(t)
    [] p = "replace" -> diffPathOf(t)

\* the path the caller at pc hands to writeFileAtomic
filePathAt(p, t) ==
  CASE p = "writeCurrent" -> currentPathOf(t)
    [] p = "seed" -> baselinePathOf(t)
    [] p = "writeDiff" -> diffPathOf(t)
    [] p = "replace" -> baselinePathOf(t)

\* what the file holds once buf is written to it
ContentOf(path, buf) == IF path[1] = "baselines" THEN buf ELSE FileMark

\* line 304 writing back the baseline it read in place of the capture
bufAtStale(p) ==
  IF p = "writeDiff" THEN FileMark ELSE IF p = "replace" THEN baselineBuf ELSE currentBuf

\* the buffer the caller at pc hands to writeFileAtomic (diffBuf, of which only
\* the presence is kept, or currentBuf)
bufAt(p) == IF p = "writeDiff" THEN FileMark ELSE currentBuf

\* writing the file in place, without a temporary path
tmpPathInPlace(filePath) == filePath

\* const tmp = `${filePath}.tmp-${Date.now()}`
tmpPathOf(filePath) == TmpSlot

\* fsp.rename(from, to)
rename(files, from, to) ==
  IF from = to THEN files ELSE [files EXCEPT ![to] = files[from], ![from] = NoFile]

\* fsp.writeFile(tmp, buf) has opened the file and not yet written all of it
WriteFileOpen ==
  /\ pc \in WriteSites
  /\ wstep = "call"
  /\ fs' = [fs EXCEPT ![tmpPathOf(filePathAt(pc, url))] = Partial]
  /\ wstep' = "writing"
  /\ UNCHANGED <<dirty, pc, cfg, browser, loopVars, mailVars, ghostVars, exitCode>>

\* fsp.writeFile(tmp, buf) resolves
WriteFileFinish ==
  /\ pc \in WriteSites
  /\ wstep = "writing"
  /\ fs' = [fs EXCEPT ![tmpPathOf(filePathAt(pc, url))] =
                         ContentOf(filePathAt(pc, url), bufAt(pc))]
  /\ wstep' = "written"
  /\ UNCHANGED <<dirty, pc, cfg, browser, loopVars, mailVars, ghostVars, exitCode>>

\* fsp.rename(tmp, filePath) resolves and writeFileAtomic returns
RenameTmp ==
  /\ pc \in WriteSites
  /\ wstep = "written"
  /\ LET filePath == filePathAt(pc, url)
     IN  /\ fs' = rename(fs, tmpPathOf(filePath), filePath)
         /\ dirty' = (dirty \/ (filePath[1] = "baselines" /\ fs'[filePath] # fs[filePath]))
  /\ wstep' = "returned"
  /\ UNCHANGED <<pc, cfg, browser, loopVars, mailVars, ghostVars, exitCode>>

(***************************************************************************)
(* main(): the loop over the urls.                                         *)
(***************************************************************************)
\* a `break` in place of the `continue` of the loop
NextUrlBreak ==
  /\ idx' = idx + 1
  /\ pc' = "close"
  /\ currentBuf' = None
  /\ baselineBuf' = None
  /\ diffRes' = None

\* the end of one iteration of the for loop (also what `continue` does)
NextUrl ==
  /\ idx' = idx + 1
  /\ pc' = IF idx < Len(Urls) THEN "capture" ELSE "close"
  /\ currentBuf' = None
  /\ baselineBuf' = None
  /\ diffRes' = None

\* a loop that starts at the last configured target
StartRunFromLast ==
  /\ pc = "idle"
  /\ \E T \in Thresholds, tol \in PixTols :
       cfg' = [changeThresholdRatio |-> T, pixelmatchThreshold |-> tol]
  /\ browser' = "open"
  /\ changes' = <<>>
  /\ seededBaselines' = 0
  /\ idx' = Len(Urls)
  /\ pc' = "capture"
  /\ st' = [t \in Targets |-> "Pending"]
  /\ sent' = 0
  /\ commitMsg' = None
  /\ exitCode' = 0
  /\ UNCHANGED <<fsVars, wstep, currentBuf, baselineBuf, diffRes, mailVars, prevChanged>>

\* lines 238-260: read the configuration, open the browser session
StartRun ==
  /\ pc = "idle"
  /\ \E T \in Thresholds, tol \in PixTols :
       cfg' = [changeThresholdRatio |-> T, pixelmatchThreshold |-> tol]
  /\ browser' = "open"
  /\ changes' = <<>>
  /\ seededBaselines' = 0
  /\ idx' = 1
  /\ pc' = "capture"
  /\ st' = [t \in Targets |-> "Pending"]
  /\ sent' = 0
  /\ commitMsg' = None
  /\ exitCode' = 0
  /\ UNCHANGED <<fsVars, wstep, currentBuf, baselineBuf, diffRes, mailVars, prevChanged>>

\* line 270: captureFullPage returns a screenshot
Capture ==
  /\ pc = "capture"
  /\ \E img \in Pages : currentBuf' = img
  /\ st' = [st EXCEPT ![url] = "Captured"]
  /\ pc' = "writeCurrent"
  /\ UNCHANGED <<fsVars, wstep, cfg, browser, idx, baselineBuf, diffRes, changes,
                 seededBaselines, mailVars, sent, commitMsg, prevChanged, exitCode>>

\* lines 271-273: captureFullPage throws; the error is recorded, the loop goes on
CaptureFails ==
  /\ pc = "capture"
  /\ changes' = Append(changes, [url |-> url, note |-> "CAPTURE FAILED"])
  /\ st' = [st EXCEPT ![url] = "Failed"]
  /\ prevChanged' = [prevChanged EXCEPT ![url] = None]
  /\ NextUrl
  /\ UNCHANGED <<fsVars, wstep, cfg, browser, seededBaselines, mailVars, sent,
                 commitMsg, exitCode>>

\* line 276 has returned; line 278: fileExists(baselinePath)
CheckBaseline ==
  /\ pc = "writeCurrent"
  /\ wstep = "returned"
  /\ wstep' = "call"
  /\ pc' = IF fs[baselinePathOf(url)] # NoFile THEN "compare" ELSE "seed"
  /\ UNCHANGED <<fsVars, cfg, browser, loopVars, mailVars, ghostVars, exitCode>>

\* line 280 has returned; lines 281-282
Seeded ==
  /\ pc = "seed"
  /\ wstep = "returned"
  /\ wstep' = "call"
  /\ seededBaselines' = seededBaselines + 1
  /\ st' = [st EXCEPT ![url] = "Seeded"]
  /\ prevChanged' = [prevChanged EXCEPT ![url] = None]
  /\ NextUrl
  /\ UNCHANGED <<fsVars, cfg, browser, changes, mailVars, sent, commitMsg, exitCode>>

\* lines 285-290: read the baseline and compare
Compare ==
  /\ pc = "compare"
  /\ baselineBuf' = fs[baselinePathOf(url)]
  /\ diffRes' = diffPngs(baselineBuf', currentBuf, cfg.pixelmatchThreshold)
  /\ st' = [st EXCEPT ![url] = "Compared"]
  /\ pc' = "decide"
  /\ UNCHANGED <<fsVars, wstep, cfg, browser, idx, currentBuf, changes, seededBaselines,
                 mailVars, sent, commitMsg, prevChanged, exitCode>>

\* a strict comparison in place of line 292's >=
isChangedStrict(res, T) == res.diffPixels * T[2] > T[1] * res.totalPixels

\* line 292: ratio >= changeThresholdRatio, on fractions
isChanged(res, T) == res.diffPixels * T[2] >= T[1] * res.totalPixels

\* an unchanged target whose baseline is refreshed with the capture
UnchangedRefresh ==
  /\ pc = "decide"
  /\ ~ isChanged(diffRes, cfg.changeThresholdRatio)
  /\ fs' = [fs EXCEPT ![baselinePathOf(url)] = currentBuf]
  /\ dirty' = (dirty \/ fs[baselinePathOf(url)] # currentBuf)
  /\ st' = [st EXCEPT ![url] = "Unchanged"]
  /\ prevChanged' = [prevChanged EXCEPT ![url] = None]
  /\ NextUrl
  /\ UNCHANGED <<wstep, cfg, browser, changes, seededBaselines, mailVars, sent,
                 commitMsg, exitCode>>

\* lines 292-294, the ratio is below the threshold: the iteration ends
Unchanged ==
  /\ pc = "decide"
  /\ ~ isChanged(diffRes, cfg.changeThresholdRatio)
  /\ st' = [st EXCEPT ![url] = "Unchanged"]
  /\ prevChanged' = [prevChanged EXCEPT ![url] = None]
  /\ NextUrl
  /\ UNCHANGED <<fsVars, wstep, cfg, browser, changes, seededBaselines, mailVars, sent,
                 commitMsg, exitCode>>

\* lines 292-295, the ratio reaches the threshold: go on to write the diff image
ChangedBegin ==
  /\ pc = "decide"
  /\ isChanged(diffRes, cfg.changeThresholdRatio)
  /\ pc' = "writeDiff"
  /\ UNCHANGED <<fsVars, wstep, cfg, browser, loopVars, mailVars, ghostVars, exitCode>>

\* line 295 has returned; lines 296-301: changes.push
PushChange ==
  /\ pc = "writeDiff"
  /\ wstep = "returned"
  /\ wstep' = "call"
  /\ changes' = Append(changes, [url |-> url,
                                 ratio |-> <<diffRes.diffPixels, diffRes.totalPixels>>,
                                 diffPixels |-> diffRes.diffPixels,
                                 totalPixels |-> diffRes.totalPixels])
  /\ pc' = "replace"
  /\ UNCHANGED <<fsVars, cfg, browser, idx, currentBuf, baselineBuf, diffRes,
                 seededBaselines, mailVars, ghostVars, exitCode>>

\* line 304 has returned: the iteration ends
Replaced ==
  /\ pc = "replace"
  /\ wstep = "returned"
  /\ wstep' = "call"
  /\ st' = [st EXCEPT ![url] = "Changed"]
  /\ prevChanged' = [prevChanged EXCEPT ![url] = currentBuf]
  /\ NextUrl
  /\ UNCHANGED <<fsVars, cfg, browser, changes, seededBaselines, mailVars, sent,
                 commitMsg, exitCode>>

\* the session is closed and the notification prepared before any commit
CloseBrowserThenNotify ==
  /\ pc = "close"
  /\ browser' = "closed"
  /\ pc' = "notify"
  /\ UNCHANGED <<fsVars, wstep, cfg, loopVars, mailVars, ghostVars, exitCode>>

(***************************************************************************)
(* main(): after the loop.                                                 *)
(***************************************************************************)
\* lines 308-310: page, context and browser are closed
CloseBrowser ==
  /\ pc = "close"
  /\ browser' = "closed"
  /\ pc' = "commit"
  /\ UNCHANGED <<fsVars, wstep, cfg, loopVars, mailVars, ghostVars, exitCode>>

\* lines 314-317: the commit message, as its kind and the count it names
commitMessage(seeded, nChanges) ==
  IF seeded > 0 /\ nChanges = 0
    THEN [kind |-> "Seed baselines", count |-> seeded]
    ELSE [kind |-> "Update baselines", count |-> nChanges]

\* line 313 is false: nothing to commit
SkipCommit ==
  /\ pc = "commit"
  /\ ~ (seededBaselines > 0 \/ Len(changes) > 0)
  /\ pc' = "notify"
  /\ UNCHANGED <<fsVars, wstep, cfg, browser, loopVars, mailVars, ghostVars, exitCode>>

\* lines 313-318 and gitCommitIfNeeded: commit and push when the tree is dirty
Commit ==
  /\ pc = "commit"
  /\ seededBaselines > 0 \/ Len(changes) > 0
  /\ commitMsg' = [msg |-> commitMessage(seededBaselines, Len(changes)), made |-> dirty]
  /\ dirty' = FALSE
  /\ pc' = "notify"
  /\ UNCHANGED <<fs, wstep, cfg, browser, loopVars, mailVars, st, sent, prevChanged,
                 exitCode>>

\* one of the execSync calls of gitCommitIfNeeded throws: before the commit was
\* made (the tree stays as it was) or after it (the push failed)
GitFails ==
  /\ pc = "commit"
  /\ seededBaselines > 0 \/ Len(changes) > 0
  /\ \E d \in {dirty, FALSE} : dirty' = d
  /\ pc' = "fatal"
  /\ exitCode' = 1
  /\ UNCHANGED <<fs, wstep, cfg, browser, loopVars, mailVars, ghostVars>>

\* line 321 never returning
reportEmptyNever(report) == FALSE

\* line 321: !changes.length
reportEmpty(report) == Len(report) = 0

\* line 321: an empty report ends the run
NoChanges ==
  /\ pc = "notify"
  /\ reportEmpty(changes)
  /\ pc' = "done"
  /\ UNCHANGED <<fsVars, wstep, cfg, browser, loopVars, mailVars, ghostVars, exitCode>>

\* the orders in which fsp.readdir can list the members of S
Listings(S) ==
  {l \in [1..Cardinality(S) -> S] : \A i, j \in 1..Cardinality(S) : l[i] = l[j] => i = j}

\* lines 324-332: the attachment limits, the listing of the diff directory
ReadDiffDir ==
  /\ pc = "notify"
  /\ ~ reportEmpty(changes)
  /\ \E e \in EmailCfgs : emailCfg' = e
  /\ \E l \in Listings({t \in Targets : fs[diffPathOf(t)] # NoFile}) : diffFilesAll' = l
  /\ attachments' = <<>>
  /\ attachmentBytes' = 0
  /\ fileIdx' = 1
  /\ pc' = IF Len(diffFilesAll') > 0 THEN "zip" ELSE "send"
  /\ UNCHANGED <<fsVars, wstep, cfg, browser, loopVars, ghostVars, exitCode>>

\* lines 334-338: the archive is created, attached and counted
AttachZip ==
  /\ pc = "zip"
  /\ attachments' = Append(attachments, "diffs.zip")
  /\ \E size \in ZipSizes : attachmentBytes' = attachmentBytes + size
  /\ pc' = "attach"
  /\ UNCHANGED <<fsVars, wstep, cfg, browser, loopVars, emailCfg, diffFilesAll, fileIdx,
                 ghostVars, exitCode>>

\* the files of diffFilesAll.slice(0, maxPngs)
sliceLen(files, maxPngs) == Min(Len(files), maxPngs)

\* lines 341-347: one iteration of the loop over the preview images
AttachPng ==
  /\ pc = "attach"
  /\ fileIdx <= sliceLen(diffFilesAll, emailCfg.maxPngs)
  /\ \E size \in PngSizes :
       IF attachmentBytes + size > emailCfg.maxBytes
         THEN /\ pc' = "send"
              /\ UNCHANGED <<attachments, attachmentBytes, fileIdx>>
         ELSE /\ attachments' = Append(attachments, diffFilesAll[fileIdx])
              /\ attachmentBytes' = attachmentBytes + size
              /\ fileIdx' = fileIdx + 1
              /\ pc' = "attach"
  /\ UNCHANGED <<fsVars, wstep, cfg, browser, loopVars, emailCfg, diffFilesAll,
                 ghostVars, exitCode>>

\* the loop of line 341 has no file left
AttachDone ==
  /\ pc = "attach"
  /\ fileIdx > sliceLen(diffFilesAll, emailCfg.maxPngs)
  /\ pc' = "send"
  /\ UNCHANGED <<fsVars, wstep, cfg, browser, loopVars, mailVars, ghostVars, exitCode>>

\* lines 368-372: sendMailgunEmail resolves
SendEmail ==
  /\ pc = "send"
  /\ sent' = sent + 1
  /\ pc' = "done"
  /\ UNCHANGED <<fsVars, wstep, cfg, browser, loopVars, mailVars, st, commitMsg,
                 prevChanged, exitCode>>

(***************************************************************************)
(* Errors that reach main().catch, and the end of the process.             *)
(***************************************************************************)
\* the awaits that can throw outside the try of line 269
Failable(p, w) ==
  \/ p \in WriteSites /\ w # "returned"
  \/ p \in {"compare", "zip", "attach", "send"}

\* a loop whose try block spans the whole body: every error of an iteration is
\* recorded like a capture failure
IOFailsCaught ==
  /\ Failable(pc, wstep)
  /\ wstep' = "call"
  /\ fs' = [fs EXCEPT ![TmpSlot] = NoFile]
  /\ IF pc \in WriteSites \cup {"compare"}
       THEN /\ changes' = Append(changes, [url |-> url, note |-> "CAPTURE FAILED"])
            /\ st' = [st EXCEPT ![url] = "Failed"]
            /\ NextUrl
            /\ UNCHANGED <<exitCode, seededBaselines, sent, commitMsg, prevChanged>>
       ELSE /\ pc' = "fatal"
            /\ exitCode' = 1
            /\ UNCHANGED <<loopVars, ghostVars>>
  /\ UNCHANGED <<dirty, cfg, browser, mailVars>>

\* lines 375-378: an await of main rejects, the error is logged, the exit code
\* set; a temporary file of writeFileAtomic is left behind and never read again
IOFails ==
  /\ Failable(pc, wstep)
  /\ pc' = "fatal"
  /\ exitCode' = 1
  /\ wstep' = "call"
  /\ fs' = [fs EXCEPT ![TmpSlot] = NoFile]
  /\ UNCHANGED <<dirty, cfg, browser, loopVars, mailVars, ghostVars>>

\* the process ends; the next scheduled run starts from a new process
Exit ==
  /\ pc \in {"done", "fatal"}
  /\ pc' = "idle"
  /\ wstep' = "call"
  /\ cfg' = None
  /\ browser' = "closed"
  /\ idx' = 1
  /\ currentBuf' = None
  /\ baselineBuf' = None
  /\ diffRes' = None
  /\ changes' = <<>>
  /\ seededBaselines' = 0
  /\ emailCfg' = None
  /\ diffFilesAll' = <<>>
  /\ fileIdx' = 1
  /\ attachments' = <<>>
  /\ attachmentBytes' = 0
  /\ st' = [t \in Targets |-> "Pending"]
  /\ sent' = 0
  /\ commitMsg' = None
  /\ exitCode' = 0
  /\ UNCHANGED <<fsVars, prevChanged>>

Next ==
  \/ StartRun
  \/ Capture
  \/ CaptureFails
  \/ WriteFileOpen
  \/ WriteFileFinish
  \/ RenameTmp
  \/ CheckBaseline
  \/ Seeded
  \/ Compare
  \/ Unchanged
  \/ ChangedBegin
  \/ PushChange
  \/ Replaced
  \/ CloseBrowser
  \/ SkipCommit
  \/ Commit
  \/ GitFails
  \/ NoChanges
  \/ ReadDiffDir
  \/ AttachZip
  \/ AttachPng
  \/ AttachDone
  \/ SendEmail
  \/ IOFails
  \/ Exit

Spec == Init /\ [][Next]_vars

(***************************************************************************)
(* One iteration of the loop from the comparison on, for every baseline    *)
(* and every capture within MaxArea: the target u1 has been captured, its  *)
(* run file written and its baseline found.                                *)
(***************************************************************************)
InitCompare ==
  /\ \E b \in Images :
       fs = [p \in Paths |-> IF p = baselinePathOf(Urls[1]) THEN b
                             ELSE IF p = currentPathOf(Urls[1]) THEN FileMark
                             ELSE NoFile]
  /\ dirty = FALSE
  /\ prevChanged = [t \in Targets |-> None]
  /\ pc = "compare"
  /\ wstep = "call"
  /\ \E T \in Thresholds, tol \in PixTols :
       cfg = [changeThresholdRatio |-> T, pixelmatchThreshold |-> tol]
  /\ browser = "open"
  /\ idx = 1
  /\ currentBuf \in Images
  /\ baselineBuf = None
  /\ diffRes = None
  /\ changes = <<>>
  /\ seededBaselines = 0
  /\ emailCfg = None
  /\ diffFilesAll = <<>>
  /\ fileIdx = 1
  /\ attachments = <<>>
  /\ attachmentBytes = 0
  /\ st = [t \in Targets |-> IF t = Urls[1] THEN "Captured" ELSE "Pending"]
  /\ sent = 0
  /\ commitMsg = None
  /\ exitCode = 0

NextCompare ==
  \/ Compare
  \/ Unchanged
  \/ ChangedBegin
  \/ WriteFileOpen
  \/ WriteFileFinish
  \/ RenameTmp
  \/ PushChange
  \/ Replaced

SpecCompare == InitCompare /\ [][NextCompare]_vars

(***************************************************************************)
(* Properties.                                                             *)
(***************************************************************************)
Terminal == {"Failed", "Seeded", "Unchanged", "Changed"}

\* the entries of the report that belong to target t
EntriesOf(t) == {i \in 1..Len(changes) : changes[i].url = t}

isChangeEntry(e) == DOMAIN e = {"url", "ratio", "diffPixels", "totalPixels"}
isFailureEntry(e) == DOMAIN e = {"url", "note"}

\* the diff directory
DiffDir(files) == [t \in Targets |-> files[diffPathOf(t)]]
BaselineDir(files) == [t \in Targets |-> files[baselinePathOf(t)]]

\* C1: at the decision, the target goes on to the Changed transition exactly
\* when diffPixels / totalPixels >= T (a ratio equal to T included) and ends
\* Unchanged exactly when the ratio is below T; a target only ends Changed with
\* a ratio >= T.
C1_ThresholdDecision ==
  [][ LET T == cfg.changeThresholdRatio
          reached == diffRes.diffPixels * T[2] >= T[1] * diffRes.totalPixels
      IN  /\ (pc = "decide" /\ reached) =>
                (pc' = "writeDiff" /\ st'[url] = "Compared")
          /\ (pc = "decide" /\ ~ reached) =>
                (st'[url] = "Unchanged" /\ pc' \in {"capture", "close"})
          /\ \A t \in Targets :
               (st'[t] = "Changed" /\ st[t] # "Changed") =>
                  (t = url /\ pc = "replace" /\ reached)
    ]_vars

\* C1 witness: a target ended Changed with a ratio exactly equal to T = 1/2
C1_Witness ==
  \E t \in Targets :
    /\ st[t] = "Changed"
    /\ cfg.changeThresholdRatio = <<1, 2>>
    /\ \E i \in EntriesOf(t) :
         isChangeEntry(changes[i]) /\ changes[i].diffPixels * 2 = changes[i].totalPixels

\* C2: a captured target that has no baseline goes to seeding; seeding appends
\* nothing to the report and writes no diff image; unless the write fails, the
\* target ends Seeded with the capture as its baseline and the loop moves to
\* the next target.
C2_SeedsWithoutReport ==
  [][ /\ (pc = "writeCurrent" /\ wstep = "returned" /\ fs[baselinePathOf(url)] = NoFile) =>
            pc' = "seed"
      /\ pc = "seed" =>
            /\ changes' = changes
            /\ DiffDir(fs') = DiffDir(fs)
            /\ \/ pc' = "seed" /\ st' = st
               \/ pc' = "fatal"
               \/ /\ st'[url] = "Seeded"
                  /\ fs'[baselinePathOf(url)] = currentBuf
                  /\ fs' = fs
                  /\ idx' = idx + 1
                  /\ pc' = IF idx < Len(Urls) THEN "capture" ELSE "close"
      /\ \A t \in Targets :
           (st'[t] = "Seeded" /\ st[t] # "Seeded") => (t = url /\ pc = "seed")
    ]_vars

\* C2 witness: the first target was seeded with the dark page and the run went
\* on to the second target
C2_Witness ==
  /\ st[Urls[1]] = "Seeded"
  /\ fs[baselinePathOf(Urls[1])] = PageDark
  /\ fs[diffPathOf(Urls[1])] = NoFile
  /\ changes = <<>>
  /\ idx = 2
  /\ pc = "capture"

\* C3: a baseline replaced by a Changed outcome holds the capture of that run,
\* from the end of the target's iteration until the target is captured again;
\* when the next run of the target captures the same image and the threshold
\* is above 0, the target ends Unchanged and nothing is appended to the report.
C3_RerunUnchanged ==
  /\ [](\A t \in Targets :
          (prevChanged[t] # None /\ st[t] \in {"Changed", "Pending"}) =>
             fs[baselinePathOf(t)] = prevChanged[t])
  /\ [][ (/\ pc = "decide"
          /\ prevChanged[url] = currentBuf
          /\ cfg.changeThresholdRatio[1] > 0) =>
            (/\ st'[url] = "Unchanged"
             /\ changes' = changes
             /\ fs' = fs)
       ]_vars

\* C3 witness: the run after a Changed outcome has captured the same image
\* and is at the decision, with a threshold above 0
C3_Witness ==
  /\ pc = "decide"
  /\ prevChanged[url] = currentBuf
  /\ cfg.changeThresholdRatio[1] > 0
  /\ cfg.pixelmatchThreshold = 0

\* the positions of main() after the loop, on the way to a normal end
PostLoop == {"close", "commit", "notify", "zip", "attach", "send", "done"}

\* C4: a failing capture appends exactly one entry for the target, holding a
\* description and neither ratio nor pixel counts, leaves every file as it was
\* and moves the loop to the next target without setting the exit code; once
\* the loop is over every target has been processed.
C4_CaptureFailureContained ==
  /\ [][ (pc = "capture" /\ st'[url] = "Failed") =>
            /\ Len(changes') = Len(changes) + 1
            /\ SubSeq(changes', 1, Len(changes)) = changes
            /\ isFailureEntry(changes'[Len(changes')])
            /\ changes'[Len(changes')].url = url
            /\ fs' = fs
            /\ idx' = idx + 1
            /\ pc' = IF idx < Len(Urls) THEN "capture" ELSE "close"
            /\ exitCode' = exitCode
       ]_vars
  /\ [](\A t \in Targets :
          st[t] = "Failed" =>
            /\ Cardinality(EntriesOf(t)) = 1
            /\ \A i \in EntriesOf(t) : isFailureEntry(changes[i]))
  /\ [](pc \in PostLoop => \A t \in Targets : st[t] \in Terminal)

\* C4 witness: the capture of the first target failed, its baseline is still
\* there, and the second target was processed to a Changed outcome
C4_Witness ==
  /\ st[Urls[1]] = "Failed"
  /\ fs[baselinePathOf(Urls[1])] # NoFile
  /\ st[Urls[2]] = "Changed"
  /\ Len(changes) = 2

\* C5: a run never dispatches more than one notification and none with an
\* empty report; a run that reaches its normal end has dispatched one exactly
\* when its report holds an entry.
C5_NotifyIffReported ==
  /\ sent <= 1
  /\ (sent = 1 => Len(changes) > 0)
  /\ (pc = "done" => (sent = 1 <=> Len(changes) > 0))

\* C5 witness: a run ended with two entries in its report and one notification
C5_Witness ==
  /\ pc = "done"
  /\ Len(changes) = 2
  /\ sent = 1

\* the preview images among the attachments
PngAttachments == {i \in 1..Len(attachments) : attachments[i] # "diffs.zip"}

\* C6: the attachments handed to sendMailgunEmail hold at most min(N, K) diff
\* images, N the number of diff images and K attachMaxPngs, and the bytes
\* accumulated in attachmentBytes, archive included, are at most maxAttachmentBytes.
C6_AttachmentCaps ==
  pc = "send" =>
    /\ Cardinality(PngAttachments) <= Min(Len(diffFilesAll), emailCfg.maxPngs)
    /\ attachmentBytes <= emailCfg.maxBytes

\* C7: the content under a baseline path is never partial; it is left alone
\* while the bytes are written to the temporary path, and it changes only by
\* the rename, from the complete previous content (or absence) to the
\* complete buffer.
C7_AtomicBaselineWrite ==
  /\ [](\A t \in Targets : fs[baselinePathOf(t)] # Partial)
  /\ [][ /\ (pc \in WriteSites /\ wstep \in {"call", "writing"}) =>
               BaselineDir(fs') = BaselineDir(fs)
         /\ \A t \in Targets :
              fs'[baselinePathOf(t)] # fs[baselinePathOf(t)] =>
                /\ t = url
                /\ pc \in {"seed", "replace"}
                /\ wstep = "written"
                /\ fs[TmpSlot] = currentBuf
                /\ fs'[baselinePathOf(t)] = currentBuf
       ]_vars

\* C7 witness: the baseline of the target is being replaced, the temporary
\* file is partly written and the baseline path still holds the previous image
C7_Witness ==
  /\ pc = "replace"
  /\ wstep = "writing"
  /\ fs[TmpSlot] = Partial
  /\ fs[baselinePathOf(url)] = baselineBuf
  /\ baselineBuf # currentBuf

\* C8: every target has one baseline path; a baseline that exists is never
\* removed; a baseline changes only for the target of the iteration, created
\* where there was none by the seeding write or replaced whole by the write
\* of the Changed transition, and after a replacement no path outside the
\* baselines holds the previous image.
C8_BaselineLifecycle ==
  [][ \A t \in Targets :
        LET old == fs[baselinePathOf(t)]
            new == fs'[baselinePathOf(t)]
        IN  /\ old # NoFile => new # NoFile
            /\ new # old =>
                 /\ t = url
                 /\ new = currentBuf
                 /\ \/ old = NoFile /\ pc = "seed"
                    \/ old # NoFile /\ pc = "replace"
                 /\ old = NoFile \/ \A p \in Paths : p[1] = "baselines" \/ fs'[p] # old
    ]_vars

\* C8 witness: the baseline of a target was seeded in one run and replaced by
\* a Changed outcome in a later one
C8_Witness ==
  \E t \in Targets :
    /\ st[t] = "Changed"
    /\ seededBaselines = 0
    /\ fs[baselinePathOf(t)] = PageFooter

\* the current image extends the baseline downwards or to the right and
\* equals it where they overlap
Grown(base, cur) ==
  /\ \/ cur.height > base.height /\ cur.width = base.width
     \/ cur.width > base.width /\ cur.height = base.height
  /\ \A x \in 0..(base.width - 1), y \in 0..(base.height - 1) :
       PixelAt(cur, x, y) = PixelAt(base, x, y)

\* C9: when the capture is the baseline grown taller or wider, the canvas is
\* the larger size and exactly the pixels of the added region differ, so the
\* ratio is the added area over the canvas area (at pixel tolerance 0).
C9_AddedRegionCounts ==
  (/\ pc = "decide"
   /\ cfg.pixelmatchThreshold = 0
   /\ Grown(baselineBuf, currentBuf)) =>
    /\ diffRes.totalPixels = currentBuf.width * currentBuf.height
    /\ diffRes.diffPixels =
         currentBuf.width * currentBuf.height - baselineBuf.width * baselineBuf.height

\* C10: comparing a capture with an identical baseline yields 0 differing
\* pixels of a canvas that is not empty, and for a threshold above 0 the
\* target ends Unchanged with no file written and no entry appended.
C10_IdenticalUnchanged ==
  [][ /\ (pc = "compare" /\ fs[baselinePathOf(url)] = currentBuf) =>
            /\ diffRes'.diffPixels = 0
            /\ diffRes'.totalPixels = currentBuf.width * currentBuf.height
      /\ (/\ pc = "decide"
          /\ baselineBuf = currentBuf
          /\ cfg.changeThresholdRatio[1] > 0) =>
            /\ st'[url] = "Unchanged"
            /\ fs' = fs
            /\ changes' = changes
            /\ pc' \notin WriteSites
    ]_vars

\* C10 witness: a 2 x 2 capture identical to its baseline is at the decision
\* with a threshold above 0 and the strictest pixel tolerance
C10_Witness ==
  /\ pc = "decide"
  /\ baselineBuf = currentBuf
  /\ currentBuf.width = 2
  /\ currentBuf.height = 2
  /\ cfg.changeThresholdRatio[1] > 0
  /\ cfg.pixelmatchThreshold = 0
  /\ diffRes.diffPixels = 0

\* the targets whose baseline this run has replaced, and has seeded
ChangedTargets == {t \in Targets : st[t] = "Changed"}
SeededTargets == {t \in Targets : st[t] = "Seeded"}

\* the targets with a change entry in the report of this run
ReportedChanged == {changes[i].url : i \in {j \in 1..Len(changes) : isChangeEntry(changes[j])}}

\* C11: what is handed to sendMailgunEmail comes from this run: every preview
\* image is the diff image of a change entry of the report, the archive is
\* attached only when the report holds a change entry, and a report made of
\* capture failures alone is sent with no attachment.
C11_AttachmentsFromThisRun ==
  pc = "send" =>
    /\ \A i \in PngAttachments : attachments[i] \in ReportedChanged
    /\ (\E i \in 1..Len(attachments) : attachments[i] = "diffs.zip") => ReportedChanged # {}
    /\ ReportedChanged = {} => attachments = <<>>

\* the loop of main() awaits one step after the other: a run that has started
\* goes on until it ends
FairSpec == Spec /\ WF_vars(Next)

\* the state of target t in the run: the target the loop is capturing is
\* Capturing, a target the loop has not reached yet is Pending
TargetState(t) ==
  IF st[t] = "Pending" /\ pc = "capture" /\ url = t THEN "Capturing" ELSE st[t]

\* the transitions of a target
Transitions ==
  { <<"Pending", "Capturing">>,
    <<"Capturing", "Failed">>, <<"Capturing", "Captured">>,
    <<"Captured", "Seeded">>, <<"Captured", "Compared">>,
    <<"Compared", "Unchanged">>, <<"Compared", "Changed">> }

\* the position of target t in the configuration
IndexOf(t) == CHOOSE i \in 1..Len(Urls) : Urls[i] = t

\* C12: during a run a target only moves along Capturing -> Failed | Captured,
\* Captured -> Seeded | Compared, Compared -> Unchanged | Changed; a target is
\* only started when every target configured before it is in a terminal state;
\* the entries of the report are in target order; after the loop every target
\* is in a terminal state, and a run that has started reaches either a fatal
\* error or the end of the loop.
C12_SequentialTargets ==
  /\ [][ pc \notin {"idle", "done", "fatal"} =>
           \A t \in Targets :
             \/ TargetState(t)' = TargetState(t)
             \/ <<TargetState(t), TargetState(t)'>> \in Transitions
       ]_vars
  /\ [](\A i, j \in 1..Len(Urls) :
          (i < j /\ TargetState(Urls[j]) # "Pending") => st[Urls[i]] \in Terminal)
  /\ [](\A a, b \in 1..Len(changes) :
          a < b => IndexOf(changes[a].url) < IndexOf(changes[b].url))
  /\ [](pc \in PostLoop => \A t \in Targets : st[t] \in Terminal)
  /\ ((pc = "capture" /\ idx = 1) ~>
        (pc = "fatal" \/ (pc = "close" /\ \A t \in Targets : st[t] \in Terminal)))

\* C12 witness: the loop has ended with the first target Changed and the second
\* Seeded, the report holding the first target's entry
C12_Witness ==
  /\ pc = "close"
  /\ st[Urls[1]] = "Changed"
  /\ st[Urls[2]] = "Seeded"
  /\ Len(changes) = 1

\* C13: whenever a run has ended, by its normal end or by a fatal error, the
\* browser session it opened has been shut down (page, context and browser
\* closed, lines 308-310).
C13_BrowserReleased ==
  pc \in {"done", "fatal"} => browser = "closed"

\* the positions of main() inside an iteration, after the capture
LoopSites == WriteSites \cup {"compare", "decide"}

\* C14: a failure of the baseline read, of the comparison or of an atomic write
\* inside an iteration ends the run at once with exit code 1: the report, the
\* target states and the loop position stay as they were, no notification has
\* been or will be sent, and the only step left is the end of the process.
\* Only a capture error makes a target Failed and lets the loop go on.
C14_FatalOnIOFailure ==
  /\ [][ (pc \in LoopSites /\ pc' = "fatal") =>
            /\ exitCode' = 1
            /\ sent' = 0
            /\ UNCHANGED <<changes, st, idx, seededBaselines, BaselineDir(fs)>>
       ]_vars
  /\ [][ pc = "fatal" => (pc' = "idle" /\ fs' = fs /\ sent = 0 /\ exitCode = 1) ]_vars
  /\ [][ \A t \in Targets :
           (st'[t] = "Failed" /\ st[t] # "Failed") =>
              (pc = "capture" /\ exitCode' = 0 /\ pc' # "fatal")
       ]_vars

\* C14 witness: the run has ended on a fatal error while the first target was
\* being compared; the second target was never started
C14_Witness ==
  /\ pc = "fatal"
  /\ st[Urls[1]] = "Compared"
  /\ st[Urls[2]] = "Pending"
  /\ baselineBuf # None
  /\ exitCode = 1
  /\ sent = 0

\* the positions of main() from the archive to the send
MailSites == {"zip", "attach", "send"}

\* C15: while the archive is created, the attachments are collected and the
\* email is sent, the loop has ended with every target terminal, no write is in
\* progress and the commit step has completed with nothing left to commit; no
\* step taken there, a failure of createZip or of the transport included,
\* changes a baseline, so every baseline the run wrote stays as written.
C15_NotifyAfterPersist ==
  /\ [](pc \in MailSites =>
          /\ \A t \in Targets : st[t] \in Terminal
          /\ wstep = "call"
          /\ fs[TmpSlot] = NoFile
          /\ commitMsg # None
          /\ ~ dirty)
  /\ [](sent = 1 => (commitMsg # None /\ \A t \in Targets : st[t] \in Terminal))
  /\ [][ (pc \in MailSites) =>
           /\ BaselineDir(fs') = BaselineDir(fs)
           /\ dirty' = dirty
           /\ \A t \in ChangedTargets : fs'[baselinePathOf(t)] = prevChanged[t]
       ]_vars

\* C15 witness: the send failed after the archive was attached, in a run that
\* replaced the first target's baseline and committed it; the baseline holds
\* the capture of this run
C15_Witness ==
  /\ pc = "fatal"
  /\ attachments # <<>>
  /\ st[Urls[1]] = "Changed"
  /\ commitMsg # None
  /\ commitMsg.made
  /\ fs[baselinePathOf(Urls[1])] = prevChanged[Urls[1]]

\* C16: a run that has detected a change of a target and replaced its baseline
\* (after which the later runs find the same rendering Unchanged and send
\* nothing for it) has sent one notification with the target's change entry
\* when it ends, whether it ends normally or on a failure of the commit, of the
\* archive, of the email transport or of a later target's comparison or IO.
C16_NotifiedExactlyOnce ==
  \A t \in Targets :
    (pc \in {"done", "fatal"} /\ st[t] = "Changed") =>
       /\ sent = 1
       /\ \E i \in EntriesOf(t) : isChangeEntry(changes[i])

\* C17: from the comparison of a target to its Unchanged end no step changes a
\* file (the target's baseline, the other baselines, the diff directory), the
\* state of the working tree, the report or the seeded count; a target that
\* ended Unchanged has no entry in the report.
C17_UnchangedNoEffect ==
  /\ [][ (pc = "compare" \/ (pc = "decide" /\ st'[url] = "Unchanged")) =>
            /\ fs' = fs
            /\ dirty' = dirty
            /\ changes' = changes
            /\ seededBaselines' = seededBaselines
       ]_vars
  /\ [](\A t \in Targets : st[t] = "Unchanged" => EntriesOf(t) = {})

\* C17 witness: a run ended with both targets Unchanged, under a threshold
\* above zero, an empty report, no commit, no notification, and the diff image
\* an earlier run left for the first target still in place
C17_Witness ==
  /\ pc = "done"
  /\ \A t \in Targets : st[t] = "Unchanged"
  /\ cfg.changeThresholdRatio # <<0, 1>>
  /\ changes = <<>>
  /\ seededBaselines = 0
  /\ commitMsg = None
  /\ sent = 0
  /\ fs[diffPathOf(Urls[1])] = FileMark

\* the targets of the change entries of the report, in report order
RECURSIVE ReportOrder(_)
ReportOrder(report) ==
  IF report = <<>> THEN <<>>
  ELSE IF isChangeEntry(report[1])
         THEN <<report[1].url>> \o ReportOrder(Tail(report))
         ELSE ReportOrder(Tail(report))

\* the preview images among the attachments, in the order they were attached
Previews == SelectSeq(attachments, LAMBDA a : a # "diffs.zip")

\* C18: when the diff directory holds exactly the diff images of this run, the
\* preview images handed to the send are the first ones of the report, in
\* report order: the k-th preview is the diff image of the k-th change entry.
C18_PreviewsInReportOrder ==
  (/\ pc = "send"
   /\ {t \in Targets : fs[diffPathOf(t)] = FileMark} = ReportedChanged) =>
      /\ Len(Previews) <= Len(ReportOrder(changes))
      /\ Previews = SubSeq(ReportOrder(changes), 1, Len(Previews))

\* C19: once the commit step is over, gitCommitIfNeeded has been called if the
\* run seeded or replaced a baseline, and the count in the message of the
\* commit it made is the number of baselines the run seeded (seed message) or
\* replaced (change message).
C19_CommitMessageCounts ==
  pc \in {"notify", "zip", "attach", "send", "done"} =>
    /\ (SeededTargets \cup ChangedTargets) # {} => commitMsg # None
    /\ (commitMsg # None /\ commitMsg.made) =>
         commitMsg.msg.count = IF commitMsg.msg.kind = "Seed baselines"
                                 THEN Cardinality(SeededTargets)
                                 ELSE Cardinality(ChangedTargets)

\* C20: an existing baseline is only replaced by the write of line 304, of the
\* target being processed, when that target's diff image is on disk and its
\* change entry is in the report; both stay so while the run goes on; no step
\* of the diff-image write, a failing one included, changes a baseline.
C20_DiffThenEntryThenBaseline ==
  /\ [][ \A t \in Targets :
           (/\ fs[baselinePathOf(t)] # NoFile
            /\ fs'[baselinePathOf(t)] # fs[baselinePathOf(t)]) =>
              /\ pc = "replace"
              /\ t = url
              /\ fs[diffPathOf(t)] = FileMark
              /\ \E i \in EntriesOf(t) : isChangeEntry(changes[i])
       ]_vars
  /\ [](\A t \in Targets :
          (st[t] = "Changed" \/ (pc = "replace" /\ url = t)) =>
             /\ fs[diffPathOf(t)] = FileMark
             /\ \E i \in EntriesOf(t) : isChangeEntry(changes[i]))
  /\ [][ (pc = "writeDiff") => BaselineDir(fs') = BaselineDir(fs) ]_vars

\* C20 witness: the write of the second target's diff image failed after the
\* first target's baseline was replaced; the second target's baseline has no
\* entry in the report and is not the capture
C20_Witness ==
  /\ pc = "fatal"
  /\ st[Urls[1]] = "Changed"
  /\ st[Urls[2]] = "Compared"
  /\ Len(changes) = 1
  /\ diffRes # None
  /\ isChanged(diffRes, cfg.changeThresholdRatio)
  /\ fs[baselinePathOf(Urls[2])] = baselineBuf
  /\ baselineBuf # currentBuf

====
